---- MODULE Spec2Model ----
(***************************************************************************)
(* Shelly Dimmer protocol engine (esphome/components/shelly_dimmer).       *)
(*                                                                         *)
(* The module models the frame codec (frame_command_), the byte-wise      *)
(* stream parser (handle_byte_ / read_frame_), the response dispatcher     *)
(* (handle_frame_), the command transceiver (send_command_) and the        *)
(* callers of the transceiver (setup, upgrade_firmware_, send_settings_,   *)
(* send_brightness_, write_state, the poll interval).                      *)
(*                                                                         *)
(* Four specifications share the variables:                                *)
(*   Spec        the device: setup, then runtime polls and brightness      *)
(*               writes, against a transport that delivers reply frames,   *)
(*               stale frames and damaged frames;                          *)
(*   SpecParser  the codec and the parser alone: an input is drawn, the    *)
(*               encoder is applied and the resulting byte stream is fed   *)
(*               to the read_frame_ loop body one byte at a time;          *)
(*   SpecConvert convert_brightness_ on drawn brightness ranges and        *)
(*               levels;                                                   *)
(*   SpecUpgrade setup() and upgrade_firmware_() for every image length    *)
(*               up to a bound, with a peer that never answers.            *)
(***************************************************************************)
EXTENDS Integers, Sequences, FiniteSets, TLC

VARIABLES
    seq_,             \* uint8_t sequence counter
    buffer_,          \* parse buffer, indexed 0 .. SHELLY_DIMMER_BUFFER_SIZE-1
    buffer_pos_,      \* parse cursor
    version_major_,   \* last reported firmware version
    version_minor_,
    brightness_,      \* last sent brightness
    ready_,           \* readiness flag
    failed_,          \* Component::mark_failed() was called
    interval_,        \* the "poll" interval is registered
    cfg,              \* configuration set before setup()
    pc,               \* position of the caller of send_command_
    i,                \* loop index of setup()
    cpc,              \* position inside send_command_
    frame,            \* send_command_'s local frame[] (frame_len = Len(frame))
    retries,          \* send_command_'s local retries
    cret,             \* value returned by the last send_command_
    addr,             \* upgrade_firmware_'s local addr, relative to fl_start
    offset,           \* upgrade_firmware_'s local offset
    b_int,            \* local brightness_int of send_settings_ / write_state
    rx,               \* bytes the transport holds for read()
    nrx,              \* deliveries of the transport, counted against MaxRx
    ops,              \* runtime operations started, counted against MaxOps
    sent,             \* history: frames written by the current send_command_
    cmds,             \* history: commands issued by the current operation
    seq0,             \* history: seq_ when the current send_command_ was entered
    matched,          \* history: a correlated frame completed in this call
    heard,            \* history: a byte was read during this call
    result,           \* history: handle_byte_'s classification of the last byte
    trace,            \* history (SpecParser): classifications of the bytes fed
    published,        \* history: telemetry handed to the sensors
    flashed,          \* history: flasher operations of upgrade_firmware_
    compared,         \* history: outcome of setup()'s last version comparison
    input             \* the input drawn (SpecParser); [kind |-> "device"] in Spec

vars == << seq_, buffer_, buffer_pos_, version_major_, version_minor_,
           brightness_, ready_, failed_, interval_, cfg, pc, i, cpc, frame,
           retries, cret, addr, offset, b_int, rx, nrx, ops, sent, cmds, seq0,
           matched, heard, result, trace, published, flashed,
                    compared, input >>

(***************************************************************************)
(* Program constants.                                                      *)
(***************************************************************************)
SHELLY_DIMMER_MAX_RETRIES == 3
SHELLY_DIMMER_MAX_BRIGHTNESS == 1000
SHELLY_DIMMER_PROTO_START_BYTE == 1
SHELLY_DIMMER_PROTO_END_BYTE == 4
SHELLY_DIMMER_PROTO_CMD_SWITCH == 1
SHELLY_DIMMER_PROTO_CMD_POLL == 16
SHELLY_DIMMER_PROTO_CMD_VERSION == 17
SHELLY_DIMMER_PROTO_CMD_SETTINGS == 32
SHELLY_DIMMER_PROTO_CMD_SWITCH_SIZE == 2
SHELLY_DIMMER_PROTO_CMD_SETTINGS_SIZE == 10
\* 4 + 72 + 3: the size of send_command_'s frame[]
SHELLY_DIMMER_PROTO_MAX_FRAME_SIZE == 79
\* Largest payload frame[] has room for.
MAX_PAYLOAD == SHELLY_DIMMER_PROTO_MAX_FRAME_SIZE - 7

\* Capacity of buffer_. Declared in shelly_dimmer.h, which is not among the
\* sources; the parser only requires 4 + payload_len + 3 <= capacity for
\* the frames it accepts.
SHELLY_DIMMER_BUFFER_SIZE == 256

(***************************************************************************)
(* Integer helpers for the C++ operators on unsigned values.               *)
(***************************************************************************)
Pow2(k) == 2 ^ k
U8(x) == x % 256
U16(x) == x % 65536
Lo(x) == x % 256              \* x & 0xff
Hi(x) == (x \div 256) % 256   \* (uint8_t)(x >> 8)

RECURSIVE SumSeq(_)
SumSeq(s) == IF s = << >> THEN 0 ELSE Head(s) + SumSeq(Tail(s))

(***************************************************************************)
(* shelly_dimmer_checksum(buf, len): uint16_t sum of len bytes.           *)
(* The argument is the byte sequence buf[0 .. len-1].                      *)
(***************************************************************************)
\* The loop of shelly_dimmer_checksum from index k on, sum the accumulator.
\* (sum is never negative: the test only makes the accumulator be evaluated
\* at every iteration instead of being carried as a nested expression.)
RECURSIVE ChecksumLoop(_, _, _)
ChecksumLoop(bytes, k, sum) ==
    IF k > Len(bytes) \/ sum < 0 THEN sum
    ELSE ChecksumLoop(bytes, k + 1, U16(sum + bytes[k]))

shelly_dimmer_checksum(bytes) == ChecksumLoop(bytes, 1, 0)

(***************************************************************************)
(* frame_command_(data, cmd, payload, len) with s the value of ++seq_.     *)
(* Returns data[0 .. pos-1] as a sequence (data[k] is element k+1).        *)
(***************************************************************************)
\* Mutant of frame_command_: the checksum is written low byte first.
frame_command_low_byte_first(s, cmd, payload) ==
    LET len  == Len(payload)
        head == << SHELLY_DIMMER_PROTO_START_BYTE, s, cmd, U8(len) >>
        csum == shelly_dimmer_checksum(<< s, cmd, U8(len) >> \o payload)
    IN  head \o payload
             \o << Lo(csum), Hi(csum), SHELLY_DIMMER_PROTO_END_BYTE >>

frame_command_(s, cmd, payload) ==
    LET len  == Len(payload)
        head == << SHELLY_DIMMER_PROTO_START_BYTE, s, cmd, U8(len) >>
        csum == shelly_dimmer_checksum(<< s, cmd, U8(len) >> \o payload)
    IN  head \o payload
             \o << Hi(csum), Lo(csum), SHELLY_DIMMER_PROTO_END_BYTE >>

(***************************************************************************)
(* handle_byte_(c) with buffer_ = buf (c already stored at buf[pos]) and   *)
(* buffer_pos_ = pos.  1: need more data, 0: frame complete, -1: failure.  *)
(***************************************************************************)
BufSlice(buf, from, to) == [ k \in 1 .. (to - from + 1) |-> buf[from + k - 1] ]

\* Mutants of handle_byte_: the checksum is verified over the start marker
\* too; the checksum is not verified; the declared length is not checked.
handle_byte_checksum_from_start(buf, pos, c) ==
    IF pos = 0
    THEN IF c = SHELLY_DIMMER_PROTO_START_BYTE THEN 1 ELSE -1
    ELSE IF pos < 4
    THEN 1
    ELSE LET payload_len == buf[3] IN
         IF (4 + payload_len + 3) > SHELLY_DIMMER_BUFFER_SIZE
         THEN -1
         ELSE IF pos < 4 + payload_len + 1
         THEN 1
         ELSE IF pos = 4 + payload_len + 1
         THEN LET csum        == U16(buf[pos - 1] * 256 + c)
                  csum_verify == shelly_dimmer_checksum(
                                     BufSlice(buf, 0, 3 + payload_len))
              IN  IF csum # csum_verify THEN -1 ELSE 1
         ELSE IF pos = 4 + payload_len + 2
         THEN IF c = SHELLY_DIMMER_PROTO_END_BYTE THEN 0 ELSE -1
         ELSE -1

handle_byte_checksum_unverified(buf, pos, c) ==
    IF pos = 0
    THEN IF c = SHELLY_DIMMER_PROTO_START_BYTE THEN 1 ELSE -1
    ELSE IF pos < 4
    THEN 1
    ELSE LET payload_len == buf[3] IN
         IF (4 + payload_len + 3) > SHELLY_DIMMER_BUFFER_SIZE
         THEN -1
         ELSE IF pos < 4 + payload_len + 1
         THEN 1
         ELSE IF pos = 4 + payload_len + 1
         THEN LET csum        == U16(buf[pos - 1] * 256 + c)
                  csum_verify == shelly_dimmer_checksum(
                                     BufSlice(buf, 1, 3 + payload_len))
              IN  IF csum # csum_verify THEN 1 ELSE 1
         ELSE IF pos = 4 + payload_len + 2
         THEN IF c = SHELLY_DIMMER_PROTO_END_BYTE THEN 0 ELSE -1
         ELSE -1

handle_byte_length_unchecked(buf, pos, c) ==
    IF pos = 0
    THEN IF c = SHELLY_DIMMER_PROTO_START_BYTE THEN 1 ELSE -1
    ELSE IF pos < 4
    THEN 1
    ELSE LET payload_len == buf[3] IN
         IF FALSE
         THEN -1
         ELSE IF pos < 4 + payload_len + 1
         THEN 1
         ELSE IF pos = 4 + payload_len + 1
         THEN LET csum        == U16(buf[pos - 1] * 256 + c)
                  csum_verify == shelly_dimmer_checksum(
                                     BufSlice(buf, 1, 3 + payload_len))
              IN  IF csum # csum_verify THEN -1 ELSE 1
         ELSE IF pos = 4 + payload_len + 2
         THEN IF c = SHELLY_DIMMER_PROTO_END_BYTE THEN 0 ELSE -1
         ELSE -1

\* Mutant of handle_byte_: the end marker is not checked.
handle_byte_end_unchecked(buf, pos, c) ==
    IF pos = 0
    THEN IF c = SHELLY_DIMMER_PROTO_START_BYTE THEN 1 ELSE -1
    ELSE IF pos < 4
    THEN 1
    ELSE LET payload_len == buf[3] IN
         IF (4 + payload_len + 3) > SHELLY_DIMMER_BUFFER_SIZE
         THEN -1
         ELSE IF pos < 4 + payload_len + 1
         THEN 1
         ELSE IF pos = 4 + payload_len + 1
         THEN LET csum        == U16(buf[pos - 1] * 256 + c)
                  csum_verify == shelly_dimmer_checksum(
                                     BufSlice(buf, 1, 3 + payload_len))
              IN  IF csum # csum_verify THEN -1 ELSE 1
         ELSE IF pos = 4 + payload_len + 2
         THEN IF c = SHELLY_DIMMER_PROTO_END_BYTE THEN 0 ELSE 0
         ELSE -1

handle_byte_(buf, pos, c) ==
    IF pos = 0
    THEN IF c = SHELLY_DIMMER_PROTO_START_BYTE THEN 1 ELSE -1
    ELSE IF pos < 4
    THEN 1
    ELSE LET payload_len == buf[3] IN
         IF (4 + payload_len + 3) > SHELLY_DIMMER_BUFFER_SIZE
         THEN -1
         ELSE IF pos < 4 + payload_len + 1
         THEN 1
         ELSE IF pos = 4 + payload_len + 1
         THEN LET csum        == U16(buf[pos - 1] * 256 + c)
                  csum_verify == shelly_dimmer_checksum(
                                     BufSlice(buf, 1, 3 + payload_len))
              IN  IF csum # csum_verify THEN -1 ELSE 1
         ELSE IF pos = 4 + payload_len + 2
         THEN IF c = SHELLY_DIMMER_PROTO_END_BYTE THEN 0 ELSE -1
         ELSE -1

(***************************************************************************)
(* handle_frame_() on a completed frame in buf, with seq_ = s.             *)
(* ret is the value returned; major / minor are the stored version after   *)
(* the call; pub is the sequence of sensor publications it made.           *)
(***************************************************************************)
POWER_SCALING_FACTOR == 880373
VOLTAGE_SCALING_FACTOR == 347800
CURRENT_SCALING_FACTOR == 1448

\* payload[k+3] << 24 | payload[k+2] << 16 | payload[k+1] << 8 | payload[k]
U32le(buf, at) ==
    buf[at + 3] * 16777216 + buf[at + 2] * 65536 + buf[at + 1] * 256 + buf[at]

\* factor / (float) raw when raw > 0, else 0: kept as the pair <<factor, raw>>.
Scaled(factor, raw) == IF raw > 0 THEN << factor, raw >> ELSE << 0, 1 >>

\* Mutant of handle_frame_: the sequence byte is not compared.
handle_frame_unsequenced(buf, s, major, minor) ==
    LET seq         == buf[1]
        cmd         == buf[2]
        payload_len == buf[3]
        same        == [ret |-> FALSE, major |-> major, minor |-> minor,
                        pub |-> << >>]
    IN  IF FALSE THEN same
        ELSE IF cmd = SHELLY_DIMMER_PROTO_CMD_POLL
        THEN IF payload_len < 16 THEN same
             ELSE [same EXCEPT
                     !.ret = TRUE,
                     !.pub = << [power   |-> IF cfg.power_sensor_
                                             THEN Scaled(POWER_SCALING_FACTOR,
                                                         U32le(buf, 4 + 4))
                                             ELSE << >>,
                                 voltage |-> IF cfg.voltage_sensor_
                                             THEN Scaled(VOLTAGE_SCALING_FACTOR,
                                                         U32le(buf, 4 + 8))
                                             ELSE << >>,
                                 current |-> IF cfg.current_sensor_
                                             THEN Scaled(CURRENT_SCALING_FACTOR,
                                                         U32le(buf, 4 + 12))
                                             ELSE << >>] >>]
        ELSE IF cmd = SHELLY_DIMMER_PROTO_CMD_VERSION
        THEN IF payload_len < 2 THEN same
             ELSE [same EXCEPT !.ret = TRUE,
                               !.minor = buf[4 + 0],
                               !.major = buf[4 + 1]]
        ELSE IF cmd \in {SHELLY_DIMMER_PROTO_CMD_SWITCH,
                         SHELLY_DIMMER_PROTO_CMD_SETTINGS}
        THEN [same EXCEPT !.ret = ~(payload_len < 1 \/ buf[4 + 0] # 1)]
        ELSE same

handle_frame_(buf, s, major, minor) ==
    LET seq         == buf[1]
        cmd         == buf[2]
        payload_len == buf[3]
        same        == [ret |-> FALSE, major |-> major, minor |-> minor,
                        pub |-> << >>]
    IN  IF seq # s THEN same
        ELSE IF cmd = SHELLY_DIMMER_PROTO_CMD_POLL
        THEN IF payload_len < 16 THEN same
             ELSE [same EXCEPT
                     !.ret = TRUE,
                     !.pub = << [power   |-> IF cfg.power_sensor_
                                             THEN Scaled(POWER_SCALING_FACTOR,
                                                         U32le(buf, 4 + 4))
                                             ELSE << >>,
                                 voltage |-> IF cfg.voltage_sensor_
                                             THEN Scaled(VOLTAGE_SCALING_FACTOR,
                                                         U32le(buf, 4 + 8))
                                             ELSE << >>,
                                 current |-> IF cfg.current_sensor_
                                             THEN Scaled(CURRENT_SCALING_FACTOR,
                                                         U32le(buf, 4 + 12))
                                             ELSE << >>] >>]
        ELSE IF cmd = SHELLY_DIMMER_PROTO_CMD_VERSION
        THEN IF payload_len < 2 THEN same
             ELSE [same EXCEPT !.ret = TRUE,
                               !.minor = buf[4 + 0],
                               !.major = buf[4 + 1]]
        ELSE IF cmd \in {SHELLY_DIMMER_PROTO_CMD_SWITCH,
                         SHELLY_DIMMER_PROTO_CMD_SETTINGS}
        THEN [same EXCEPT !.ret = ~(payload_len < 1 \/ buf[4 + 0] # 1)]
        ELSE same

(***************************************************************************)
(* One iteration of read_frame_'s loop for the byte c = read().            *)
(* ReadResult(c) is handle_byte_'s classification; ReadStep(c) is the      *)
(* effect of the iteration on the parser and on the device state.          *)
(***************************************************************************)
Stored(c) == [buffer_ EXCEPT ![buffer_pos_] = c]

ReadResult(c) == handle_byte_(Stored(c), buffer_pos_, c)

\* Mutants of read_frame_cursor: the cursor is kept on a failure; the cursor
\* advances on a complete frame.
read_frame_cursor_kept_on_failure(r) ==
    IF r = 1 THEN buffer_pos_ + 1 ELSE IF r = 0 THEN 0 ELSE buffer_pos_

read_frame_cursor_advances_on_complete(r) ==
    IF r = -1 THEN 0 ELSE buffer_pos_ + 1

\* buffer_pos_ after the switch on handle_byte_'s classification r.
read_frame_cursor(r) == IF r = 1 THEN buffer_pos_ + 1 ELSE 0

ReadStep(c) ==
    LET r == ReadResult(c)
        h == handle_frame_(Stored(c), seq_, version_major_, version_minor_)
    IN  /\ buffer_' = Stored(c)
        /\ result' = r
        /\ heard' = TRUE
        /\ buffer_pos_' = read_frame_cursor(r)
        /\ IF r = 0
           THEN /\ version_major_' = h.major
                /\ version_minor_' = h.minor
                /\ published' = published \o h.pub
                /\ matched' = (matched \/ Stored(c)[1] = seq_)
           ELSE UNCHANGED << version_major_, version_minor_, published,
                             matched >>

(***************************************************************************)
(* Bounds of the model.                                                    *)
(***************************************************************************)
MaxGarbage == 2    \* garbage bytes between an error and the next frame
MaxFill == 262     \* bytes that follow an oversized header

(***************************************************************************)
(* Configurations (set by the generated setters before setup()).           *)
(***************************************************************************)
Config(min, max, edge, fade, wb, wt, sensors, state, fw) ==
    [fw_len |-> fw, min_brightness_ |-> min, max_brightness_ |-> max, leading_edge_ |-> edge,
     fade_rate_ |-> fade, warmup_brightness_ |-> wb, warmup_time_ |-> wt,
     power_sensor_ |-> sensors, voltage_sensor_ |-> sensors,
     current_sensor_ |-> sensors, state_ |-> state]

(***************************************************************************)
(* The object after construction (member initialisers of the class).       *)
(***************************************************************************)
Constructed ==
    /\ buffer_ = [k \in 0 .. SHELLY_DIMMER_BUFFER_SIZE - 1 |-> 0]
    /\ buffer_pos_ = 0
    /\ version_major_ = 0
    /\ version_minor_ = 0
    /\ brightness_ = 0
    /\ ready_ = FALSE
    /\ failed_ = FALSE
    /\ interval_ = FALSE
    /\ i = 0
    /\ cpc = "idle"
    /\ frame = << >>
    /\ retries = 0
    /\ cret = FALSE
    /\ addr = 0
    /\ offset = 0
    /\ b_int = 0
    /\ rx = << >>
    /\ nrx = 0
    /\ ops = 0
    /\ sent = << >>
    /\ cmds = << >>
    /\ seq0 = 0
    /\ matched = FALSE
    /\ heard = FALSE
    /\ result = 1
    /\ trace = << >>
    /\ published = << >>
    /\ flashed = << >>
    /\ compared = "none"

(***************************************************************************)
(* SpecParser: the codec and the stream parser on drawn inputs.            *)
(***************************************************************************)
FlipBit(b, k) == IF (b \div Pow2(k)) % 2 = 1 THEN b - Pow2(k) ELSE b + Pow2(k)

\* Payload of n bytes: k = 0 a ramp, k = 1 all 0xFF.
Pattern(n, k) == [j \in 1 .. n |-> IF k = 0 THEN (37 * j + 11) % 256 ELSE 255]

EncPayloads ==
    { Pattern(n, k) : n \in 0 .. MAX_PAYLOAD, k \in 0 .. 1 } \cup { << 232, 3 >> }

FlipPayloads ==
    { Pattern(n, k) : n \in {0, 1, 2, 8}, k \in 0 .. 1 }
        \cup { << 0, 22, 4, 0 >>, << 0, 0, 4, 0 >> }

\* Streams that end in a byte classified as an error.
ErrPrefixes ==
    { << 0 >>,                        \* no start marker
      << 1, 9, 17, 0, 0, 99 >>,       \* checksum mismatch
      << 1, 9, 17, 0, 0, 26, 5 >>,    \* no end marker
      << 1, 9, 17, 250, 0 >> }        \* declared length too large

GarbageBytes == {0, 1, 4, 255}

RECURSIVE SeqsUpTo(_, _)
SeqsUpTo(S, n) ==
    IF n = 0 THEN { << >> }
    ELSE LET shorter == SeqsUpTo(S, n - 1)
         IN  shorter \cup { Append(g, b) : g \in shorter, b \in S }

Inputs ==
    { [kind |-> "encode", seq |-> s, cmd |-> c, payload |-> p] :
        s \in {4, 255}, c \in {SHELLY_DIMMER_PROTO_CMD_SWITCH,
                               SHELLY_DIMMER_PROTO_CMD_VERSION},
        p \in EncPayloads }
    \cup
    { [kind |-> "flip", seq |-> s, cmd |-> SHELLY_DIMMER_PROTO_CMD_VERSION,
       payload |-> p, at |-> a, bit |-> b] :
        s \in {4, 255}, p \in FlipPayloads, a \in 1 .. 11, b \in 0 .. 7 }
    \cup
    { [kind |-> "resync", seq |-> 4, cmd |-> SHELLY_DIMMER_PROTO_CMD_SWITCH,
       payload |-> p, err |-> e, garbage |-> g] :
        p \in { << >>, << 1 >>, << 232, 3 >> }, e \in ErrPrefixes,
        g \in SeqsUpTo(GarbageBytes, MaxGarbage) }
    \cup
    { [kind |-> "oversize", seq |-> 4, cmd |-> SHELLY_DIMMER_PROTO_CMD_POLL,
       payload |-> << >>, len |-> n, fill |-> f, pat |-> k] :
        n \in {249, 250, 255}, f \in {0, 1, 8, MaxFill}, k \in 0 .. 1 }

\* The byte stream of an input, given the frame the encoder produced for it.
StreamOf(in, fr) ==
    CASE in.kind = "encode"   -> fr
      [] in.kind = "flip"     -> [fr EXCEPT ![in.at + 1] = FlipBit(@, in.bit)]
      [] in.kind = "resync"   -> in.err \o in.garbage \o fr
      [] in.kind = "oversize" -> << fr[1], fr[2], fr[3], in.len >>
                                     \o Pattern(in.fill, in.pat)

ParserInit ==
    /\ Constructed
    /\ input \in { in \in Inputs :
                      in.kind = "flip" => in.at <= 3 + Len(in.payload) }
    /\ seq_ = input.seq
    /\ cfg = Config(0, 1000, FALSE, 0, 100, 20, TRUE, TRUE, 600)
    /\ pc = "p_encode"

\* frame_command_ applied to the drawn (cmd, payload); the stream is queued.
Encode ==
    /\ pc = "p_encode"
    /\ seq_' = U8(seq_ + 1)
    /\ frame' = frame_command_(seq_', input.cmd, input.payload)
    /\ rx' = StreamOf(input, frame')
    /\ pc' = "p_feed"
    /\ UNCHANGED << buffer_, buffer_pos_, version_major_, version_minor_,
                    brightness_, ready_, failed_, interval_, cfg, i, cpc,
                    retries, cret, addr, offset, b_int, nrx, ops, sent, cmds,
                    seq0, matched, heard, result, trace, published, flashed,
                    compared, input >>

\* One iteration of read_frame_'s loop on the next byte of the stream.
Feed ==
    /\ pc = "p_feed"
    /\ rx # << >>
    /\ ReadStep(Head(rx))
    /\ rx' = Tail(rx)
    /\ trace' = Append(trace, result')
    /\ UNCHANGED << seq_, brightness_, ready_, failed_, interval_, cfg, pc, i,
                    cpc, frame, retries, cret, addr, offset, b_int, nrx, ops,
                    sent, cmds, seq0, flashed, compared, input >>

ParserNext == Encode \/ Feed

SpecParser == ParserInit /\ [][ParserNext]_vars

(***************************************************************************)
(* Spec: the device.                                                       *)
(***************************************************************************)
MaxRx == 2     \* deliveries of the transport in one run
MaxOps == 1    \* runtime operations (polls, brightness writes) in one run

\* The firmware version the image carries (SHD_FIRMWARE_MAJOR_VERSION and
\* SHD_FIRMWARE_MINOR_VERSION come from the build).
SHD_FIRMWARE_MAJOR_VERSION == 51
SHD_FIRMWARE_MINOR_VERSION == 6

\* Brightness levels of the light state, as exact fractions <<num, den>>.
Levels == { << 0, 1 >>, << 1, 2 >>, << 1, 1 >> }

Min(a, b) == IF a < b THEN a ELSE b

(***************************************************************************)
(* convert_brightness_(brightness), brightness = level[1] / level[2].      *)
(* The levels of the model have a power of two as denominator and a small  *)
(* numerator, so that the float product with the integer                   *)
(* max_brightness_ - min_brightness_ is exact.                             *)
(***************************************************************************)
\* n / d truncated toward zero.
Trunc(n, d) == IF n >= 0 THEN n \div d ELSE -((-n) \div d)

\* brightness * (max_brightness_ - min_brightness_), truncated.
scaled_brightness(level) ==
    Trunc(level[1] * (cfg.max_brightness_ - cfg.min_brightness_), level[2])

\* The values static_cast<uint16_t> can give for a float whose truncation is
\* x. Outside 0 .. 65535 the conversion is undefined: builds give 0
\* (saturation), x modulo 2^16 (conversion through a wider integer) or 65535.
static_cast_uint16(x) ==
    IF x \in 0 .. 65535 THEN { x } ELSE { 0, U16(x), 65535 }

\* Mutant of convert_brightness_from: the result is not clamped.
convert_brightness_unclamped(level, cast) ==
    IF level[1] = 0 THEN 0
    ELSE LET brightness_int == U16(cast + cfg.min_brightness_)
         IN  brightness_int

\* convert_brightness_ given the value `cast` of the static_cast; the sum
\* with min_brightness_ is stored in a uint16_t.
convert_brightness_from(level, cast) ==
    IF level[1] = 0 THEN 0
    ELSE LET brightness_int == U16(cast + cfg.min_brightness_)
         IN  Min(brightness_int, SHELLY_DIMMER_MAX_BRIGHTNESS)

\* convert_brightness_ where the cast is defined (0 <= level <= 1 and
\* min_brightness_ <= max_brightness_, as in every configuration of Spec).
convert_brightness_(level) ==
    convert_brightness_from(level, U16(scaled_brightness(level)))

\* send_brightness_'s payload for a brightness.
switch_payload(brightness) == << Lo(brightness), Hi(brightness) >>

\* send_settings_'s payload for brightness_int.
settings_payload(brightness_int) ==
    LET fade_rate == Min(100, cfg.fade_rate_) IN
    << Lo(brightness_int), Hi(brightness_int),
       IF cfg.leading_edge_ THEN 1 ELSE 2,
       0,
       Lo(fade_rate), Hi(fade_rate),
       Lo(cfg.warmup_brightness_), Hi(cfg.warmup_brightness_),
       Lo(cfg.warmup_time_), Hi(cfg.warmup_time_) >>

Configs ==
    { Config(0, 1000, FALSE, 0, 100, 20, TRUE, TRUE, 600),
      Config(100, 900, TRUE, 300, 100, 20, FALSE, FALSE, 512) }

(***************************************************************************)
(* SpecConvert: convert_brightness_ on drawn configurations and levels.    *)
(***************************************************************************)
LevelBits == 3    \* the levels drawn are k / 2^LevelBits, k = 0 .. 2^LevelBits

\* Values drawn for min_brightness_ and max_brightness_ (both uint16_t).
BrightnessBounds == { 0, 1, 100, 500, 900, 1000, 1001, 2000, 65535 }

ConvertLevels == { << k, Pow2(LevelBits) >> : k \in 0 .. Pow2(LevelBits) }

ConvertInit ==
    /\ Constructed
    /\ seq_ = 0
    /\ \E min \in BrightnessBounds, max \in BrightnessBounds :
          cfg = Config(min, max, FALSE, 0, 100, 20, TRUE, TRUE, 600)
    /\ input \in { [kind |-> "convert", level |-> l] : l \in ConvertLevels }
    /\ pc = "c_convert"

\* uint16_t brightness_int = convert_brightness_(level).
Convert ==
    /\ pc = "c_convert"
    /\ \E cast \in static_cast_uint16(scaled_brightness(input.level)) :
          b_int' = convert_brightness_from(input.level, cast)
    /\ pc' = "c_done"
    /\ UNCHANGED << seq_, buffer_, buffer_pos_, version_major_, version_minor_,
                    brightness_, ready_, failed_, interval_, cfg, i, cpc,
                    frame, retries, cret, addr, offset, rx, nrx, ops, sent,
                    cmds, seq0, matched, heard, result, trace, published,
                    flashed, compared, input >>

ConvertNext == Convert

SpecConvert == ConvertInit /\ [][ConvertNext]_vars

\* The well-formed frame of the peer for (sequence, command, payload).
PeerFrame(s, cmd, payload) ==
    LET sum == (s + cmd + Len(payload) + SumSeq(payload)) % 65536 IN
    << 1, s, cmd, Len(payload) >> \o payload
        \o << sum \div 256, sum % 256, 4 >>

\* A device that has been running for a while: setup() found the expected
\* version at its first check (the only reply ever received), and 255
\* commands have been issued, none of the later ones answered, the last of
\* them the switch command of a brightness write for level 1/2 (500 with the
\* range 0 .. 1000). The next command takes the sequence counter from 255
\* back to 0.
Running ==
    /\ seq_ = 255
    /\ buffer_ = [k \in 0 .. SHELLY_DIMMER_BUFFER_SIZE - 1 |->
                    LET reply == PeerFrame(1, SHELLY_DIMMER_PROTO_CMD_VERSION,
                                           << SHD_FIRMWARE_MINOR_VERSION,
                                              SHD_FIRMWARE_MAJOR_VERSION >>)
                    IN  IF k < Len(reply) THEN reply[k + 1] ELSE 0]
    /\ buffer_pos_ = 0
    /\ version_major_ = SHD_FIRMWARE_MAJOR_VERSION
    /\ version_minor_ = SHD_FIRMWARE_MINOR_VERSION
    /\ brightness_ = 500
    /\ ready_ = TRUE
    /\ failed_ = FALSE
    /\ interval_ = TRUE
    /\ pc = "loop"
    /\ i = 0
    /\ cpc = "idle"
    /\ frame = frame_command_(255, SHELLY_DIMMER_PROTO_CMD_SWITCH,
                              switch_payload(500))
    /\ retries = -1
    /\ cret = FALSE
    /\ addr = 0
    /\ offset = 0
    /\ b_int = 500
    /\ rx = << >>
    /\ nrx = 0
    /\ ops = 0
    /\ sent = << frame, frame, frame >>
    /\ cmds = << [cmd |-> SHELLY_DIMMER_PROTO_CMD_SWITCH, seq |-> 255,
                  payload |-> switch_payload(500)] >>
    /\ seq0 = 254
    /\ matched = FALSE
    /\ heard = FALSE
    /\ result = 0
    /\ trace = << >>
    /\ published = << >>
    /\ flashed = << >>
    /\ compared = "match"

Init ==
    /\ input = [kind |-> "device"]
    /\ \/ cfg \in Configs /\ Constructed /\ seq_ = 0 /\ pc = "setup"
       \/ cfg = Config(0, 1000, FALSE, 0, 100, 20, TRUE, TRUE, 600) /\ Running

(***************************************************************************)
(* The transport. A delivery queues the bytes of one item: a well-formed   *)
(* frame of the peer (a reply to the outstanding command, or a late reply  *)
(* carrying the previous sequence number), or damaged bytes.               *)
(***************************************************************************)
PollReport ==
    << 1, 0, 244, 1,  0, 0, 0, 0,  64, 5, 0, 0,  10, 0, 0, 0,  50 >>

Replies(s) ==
    { PeerFrame(s, SHELLY_DIMMER_PROTO_CMD_VERSION,
                << SHD_FIRMWARE_MINOR_VERSION, SHD_FIRMWARE_MAJOR_VERSION >>),
      PeerFrame(s, SHELLY_DIMMER_PROTO_CMD_VERSION, << 5, 51 >>),
      PeerFrame(s, SHELLY_DIMMER_PROTO_CMD_VERSION, << 6 >>),
      PeerFrame(s, SHELLY_DIMMER_PROTO_CMD_SWITCH, << 1 >>),
      PeerFrame(s, SHELLY_DIMMER_PROTO_CMD_SWITCH, << >>),
      PeerFrame(s, SHELLY_DIMMER_PROTO_CMD_SETTINGS, << 0 >>),
      PeerFrame(s, SHELLY_DIMMER_PROTO_CMD_POLL, PollReport),
      PeerFrame(s, SHELLY_DIMMER_PROTO_CMD_POLL, << 1, 0 >>),
      PeerFrame(s, 127, << >>) }

Damaged ==
    { << 0 >>,                       \* a byte that is no start marker
      << 1, 9, 17 >>,                \* a frame cut short
      << 1, 9, 17, 0, 0, 99, 4 >> }  \* a frame with a wrong checksum

\* Replies to the previous command that arrive late.
Late(s) ==
    { PeerFrame(s, SHELLY_DIMMER_PROTO_CMD_VERSION,
                << SHD_FIRMWARE_MINOR_VERSION, SHD_FIRMWARE_MAJOR_VERSION >>),
      PeerFrame(s, SHELLY_DIMMER_PROTO_CMD_SWITCH, << 1 >>),
      PeerFrame(s, SHELLY_DIMMER_PROTO_CMD_POLL, PollReport) }

Items == Replies(seq_) \cup Late(U8(seq_ - 1)) \cup Damaged

Deliver ==
    /\ \/ cpc = "wait"
       \/ cpc = "idle" /\ pc = "setup"
    /\ rx = << >>
    /\ nrx < MaxRx
    /\ \E item \in Items : rx' = item
    /\ nrx' = nrx + 1
    /\ UNCHANGED << seq_, buffer_, buffer_pos_, version_major_, version_minor_,
                    brightness_, ready_, failed_, interval_, cfg, pc, i, cpc,
                    frame, retries, cret, addr, offset, b_int, ops, sent, cmds,
                    seq0, matched, heard, result, trace, published, flashed,
                    compared, input >>

(***************************************************************************)
(* send_command_(cmd, payload, len).                                       *)
(***************************************************************************)
\* Entry: frame_command_ builds the frame (++seq_), retries = 3. The caller
\* continues at `cont` when the call has returned (cpc = "idle").
Call(cmd, payload, cont) ==
    /\ seq_' = U8(seq_ + 1)
    /\ frame' = frame_command_(seq_', cmd, payload)
    /\ retries' = SHELLY_DIMMER_MAX_RETRIES
    /\ cpc' = "tx"
    /\ pc' = cont
    /\ sent' = << >>
    /\ seq0' = seq_
    /\ matched' = FALSE
    /\ heard' = FALSE

\* while (retries--) { write_array(frame, frame_len); flush(); ...
retries_left_stops_early(r) == r > 1

retries_left(r) == r # 0

\* Mutant of Transmit: the frame is built again for every attempt.
Transmit_Reframed ==
    /\ cpc = "tx"
    /\ retries_left(retries)
    /\ retries' = retries - 1
    /\ seq_' = IF sent = << >> THEN seq_ ELSE U8(seq_ + 1)
    /\ frame' = frame_command_(seq_', frame[3], SubSeq(frame, 5, Len(frame) - 3))
    /\ sent' = Append(sent, frame')
    /\ cpc' = "wait"
    /\ UNCHANGED << buffer_, buffer_pos_, version_major_, version_minor_,
                    brightness_, ready_, failed_, interval_, cfg, pc, i,
                    cret, addr, offset, b_int, rx, nrx, ops, cmds, seq0,
                    matched, heard, result, trace, published, flashed,
                    compared, input >>

Transmit ==
    /\ cpc = "tx"
    /\ retries_left(retries)
    /\ retries' = retries - 1
    /\ sent' = Append(sent, frame)
    /\ cpc' = "wait"
    /\ UNCHANGED << seq_, buffer_, buffer_pos_, version_major_, version_minor_,
                    brightness_, ready_, failed_, interval_, cfg, pc, i, frame,
                    cret, addr, offset, b_int, rx, nrx, ops, cmds, seq0,
                    matched, heard, result, trace, published, flashed,
                    compared, input >>

\* ... } return false;
GiveUp ==
    /\ cpc = "tx"
    /\ ~retries_left(retries)
    /\ retries' = retries - 1
    /\ cret' = FALSE
    /\ cpc' = "idle"
    /\ UNCHANGED << seq_, buffer_, buffer_pos_, version_major_, version_minor_,
                    brightness_, ready_, failed_, interval_, cfg, pc, i, frame,
                    addr, offset, b_int, rx, nrx, ops, sent, cmds, seq0,
                    matched, heard, result, trace, published, flashed,
                    compared, input >>

\* Mutant of read_frame_returns: read_frame_ returns handle_frame_'s result.
read_frame_returns_dispatch_result(r) ==
    /\ r = 0
    /\ handle_frame_(buffer_', seq_, version_major_, version_minor_).ret

\* read_frame_'s value when handle_byte_ classified the byte as r.
read_frame_returns(r) == r = 0

\* if (read_frame_()) return true;  -- one byte of read_frame_'s loop
PollByte ==
    /\ cpc = "wait"
    /\ rx # << >>
    /\ ReadStep(Head(rx))
    /\ rx' = Tail(rx)
    /\ IF read_frame_returns(result')
       THEN cret' = TRUE /\ cpc' = "idle"
       ELSE UNCHANGED << cret, cpc >>
    /\ UNCHANGED << seq_, brightness_, ready_, failed_, interval_, cfg, pc, i,
                    frame, retries, addr, offset, b_int, nrx, ops, sent, cmds,
                    seq0, trace, flashed, compared, input >>

\* millis() - tx_time >= SHELLY_DIMMER_ACK_TIMEOUT, seen once read_frame_
\* has drained the transport and returned false.
Timeout ==
    /\ cpc = "wait"
    /\ rx = << >>
    /\ cpc' = "tx"
    /\ UNCHANGED << seq_, buffer_, buffer_pos_, version_major_, version_minor_,
                    brightness_, ready_, failed_, interval_, cfg, pc, i, frame,
                    retries, cret, addr, offset, b_int, rx, nrx, ops, sent,
                    cmds, seq0, matched, heard, result, trace, published, flashed,
                    compared, input >>

(***************************************************************************)
(* setup(), upgrade_firmware_(), send_settings_(), send_brightness_().     *)
(***************************************************************************)
parse == << buffer_, buffer_pos_, result, trace >>
version == << version_major_, version_minor_ >>
upgrade == << addr, offset, flashed >>

Cmd(cmd, payload) == [cmd |-> cmd, seq |-> U8(seq_ + 1), payload |-> payload]

\* Mutant of version_mismatch: only the major version is compared.
version_mismatch_major_only ==
    version_major_ # SHD_FIRMWARE_MAJOR_VERSION

version_mismatch ==
    \/ version_major_ # SHD_FIRMWARE_MAJOR_VERSION
    \/ version_minor_ # SHD_FIRMWARE_MINOR_VERSION

\* for (i < 2): reset_normal_boot_() drains the transport; the version is
\* requested.
SetupCheckVersion ==
    /\ pc = "setup"
    /\ cpc = "idle"
    /\ i < 2
    /\ rx' = << >>
    /\ Call(SHELLY_DIMMER_PROTO_CMD_VERSION, << >>, "setup_compare")
    /\ cmds' = Append(cmds, Cmd(SHELLY_DIMMER_PROTO_CMD_VERSION, << >>))
    /\ UNCHANGED << parse, version, upgrade, brightness_, ready_, failed_,
                    interval_, cfg, i, cret, b_int, nrx, ops, published,
                    compared, input >>

\* Version mismatch after an upgrade (i > 0): mark_failed(), return.
SetupStillMismatch ==
    /\ pc = "setup_compare"
    /\ cpc = "idle"
    /\ version_mismatch
    /\ i > 0
    /\ compared' = "mismatch"
    /\ failed_' = TRUE
    /\ pc' = "loop"
    /\ UNCHANGED << parse, version, upgrade, seq_, brightness_, ready_,
                    interval_, cfg, i, cpc, frame, retries, cret, b_int, rx,
                    nrx, ops, sent, cmds, seq0, matched, heard, published,
                    input >>

\* Mutant of SetupStartUpgrade: the upgrade is entered on every mismatch.
SetupStartUpgrade_Again ==
    /\ pc = "setup_compare"
    /\ cpc = "idle"
    /\ version_mismatch
    /\ compared' = "mismatch"
    /\ pc' = "upgrade"
    /\ UNCHANGED << parse, version, upgrade, seq_, brightness_, ready_, failed_,
                    interval_, cfg, i, cpc, frame, retries, cret, b_int, rx,
                    nrx, ops, sent, cmds, seq0, matched, heard, published,
                    input >>

\* Version mismatch on the first pass: upgrade_firmware_() is entered.
SetupStartUpgrade ==
    /\ pc = "setup_compare"
    /\ cpc = "idle"
    /\ version_mismatch
    /\ ~(i > 0)
    /\ compared' = "mismatch"
    /\ pc' = "upgrade"
    /\ UNCHANGED << parse, version, upgrade, seq_, brightness_, ready_, failed_,
                    interval_, cfg, i, cpc, frame, retries, cret, b_int, rx,
                    nrx, ops, sent, cmds, seq0, matched, heard, published,
                    input >>

\* Mutant of UpgradeFailed: setup() returns without mark_failed().
UpgradeFailed_Unmarked ==
    /\ failed_' = failed_
    /\ pc' = "loop"
    /\ UNCHANGED << addr, offset >>

\* upgrade_firmware_() returned false: mark_failed(), setup() returns.
UpgradeFailed ==
    /\ failed_' = TRUE
    /\ pc' = "loop"
    /\ UNCHANGED << addr, offset >>

\* reset_dfu_boot_() drains the transport; stm32_init() succeeds or not.
UpgradeInit ==
    /\ pc = "upgrade"
    /\ rx' = << >>
    /\ \E ok \in BOOLEAN :
         /\ flashed' = Append(flashed, [op |-> "init", ok |-> ok])
         /\ IF ok
            THEN pc' = "upgrade_erase" /\ UNCHANGED << failed_, addr, offset >>
            ELSE UpgradeFailed
    /\ UNCHANGED << parse, version, seq_, brightness_, ready_, interval_, cfg,
                    i, cpc, frame, retries, cret, b_int, nrx, ops, sent, cmds,
                    seq0, matched, heard, published,
                    compared, input >>

\* stm32_erase_memory(); on success the locals of the copy loop are set
\* (addr is kept relative to stm32->dev->fl_start).
UpgradeErase ==
    /\ pc = "upgrade_erase"
    /\ \E ok \in BOOLEAN :
         /\ flashed' = Append(flashed, [op |-> "erase", ok |-> ok])
         /\ IF ok
            THEN /\ pc' = "upgrade_write"
                 /\ addr' = 0
                 /\ offset' = 0
                 /\ UNCHANGED failed_
            ELSE UpgradeFailed
    /\ UNCHANGED << parse, version, seq_, brightness_, ready_, interval_, cfg,
                    i, cpc, frame, retries, cret, b_int, rx, nrx, ops, sent,
                    cmds, seq0, matched, heard, published,
                    compared, input >>

\* Mutant of chunk_len: the operands of the first conditional are swapped.
chunk_len_swapped ==
    LET end  == cfg.fw_len
        left == end - addr
        len  == IF 256 > left THEN 256 ELSE left
    IN  IF len > (cfg.fw_len - offset) THEN cfg.fw_len - offset ELSE len

\* Locals of one iteration of the copy loop.
chunk_len ==
    LET end  == cfg.fw_len
        left == end - addr
        len  == IF 256 > left THEN left ELSE 256
    IN  IF len > (cfg.fw_len - offset) THEN cfg.fw_len - offset ELSE len

copy_more == addr < cfg.fw_len /\ offset < cfg.fw_len /\ chunk_len # 0

\* One iteration of the copy loop: stm32_write_memory(addr, buffer, len).
\* (memcpy fills all 256 bytes of buffer from p, also when fewer than 256
\* bytes of the image remain; only the first len bytes are handed on.)
UpgradeWrite ==
    /\ pc = "upgrade_write"
    /\ copy_more
    /\ \E ok \in BOOLEAN :
         /\ flashed' = Append(flashed, [op |-> "write", addr |-> addr,
                                        len |-> chunk_len, ok |-> ok])
         /\ IF ok
            THEN /\ addr' = addr + chunk_len
                 /\ offset' = offset + chunk_len
                 /\ UNCHANGED << pc, failed_ >>
            ELSE UpgradeFailed
    /\ UNCHANGED << parse, version, seq_, brightness_, ready_, interval_, cfg,
                    i, cpc, frame, retries, cret, b_int, rx, nrx, ops, sent,
                    cmds, seq0, matched, heard, published,
                    compared, input >>

\* The copy loop is left: upgrade_firmware_() returns true, setup() continues
\* its loop with i + 1.
UpgradeDone ==
    /\ pc = "upgrade_write"
    /\ ~copy_more
    /\ i' = i + 1
    /\ pc' = "setup"
    /\ UNCHANGED << parse, version, upgrade, seq_, brightness_, ready_, failed_,
                    interval_, cfg, cpc, frame, retries, cret, b_int, rx, nrx,
                    ops, sent, cmds, seq0, matched, heard, published,
                    compared, input >>

\* Version as expected: the poll interval is registered and send_settings_()
\* is entered; it sends the settings command.
SetupSendSettings ==
    /\ pc = "setup_compare"
    /\ cpc = "idle"
    /\ ~version_mismatch
    /\ compared' = "match"
    /\ interval_' = TRUE
    /\ \E level \in (IF cfg.state_ THEN Levels ELSE { << 0, 1 >> }) :
         /\ b_int' = convert_brightness_(level)
         /\ Call(SHELLY_DIMMER_PROTO_CMD_SETTINGS, settings_payload(b_int'),
                 "settings_sent")
         /\ cmds' = << Cmd(SHELLY_DIMMER_PROTO_CMD_SETTINGS,
                           settings_payload(b_int')) >>
    /\ UNCHANGED << parse, version, upgrade, brightness_, ready_, failed_, cfg,
                    i, cret, rx, nrx, ops, published, input >>

\* Mutant of SettingsSent: the brightness is sent only after an acknowledged
\* settings command.
SettingsSent_OnlyIfAcked ==
    /\ pc = "settings_sent"
    /\ cpc = "idle"
    /\ IF cret
       THEN /\ Call(SHELLY_DIMMER_PROTO_CMD_SWITCH, switch_payload(b_int),
                    "settings_brightness")
            /\ cmds' = Append(cmds, Cmd(SHELLY_DIMMER_PROTO_CMD_SWITCH,
                                        switch_payload(b_int)))
       ELSE /\ pc' = "settings_done"
            /\ UNCHANGED << seq_, frame, retries, cpc, sent, seq0, matched,
                            heard, cmds >>
    /\ UNCHANGED << parse, version, upgrade, brightness_, ready_, failed_,
                    interval_, cfg, i, cret, b_int, rx, nrx, ops, published,
                    compared, input >>

\* send_settings_(): "Also send brightness separately": send_brightness_().
SettingsSent ==
    /\ pc = "settings_sent"
    /\ cpc = "idle"
    /\ Call(SHELLY_DIMMER_PROTO_CMD_SWITCH, switch_payload(b_int),
            "settings_brightness")
    /\ cmds' = Append(cmds, Cmd(SHELLY_DIMMER_PROTO_CMD_SWITCH,
                                switch_payload(b_int)))
    /\ UNCHANGED << parse, version, upgrade, brightness_, ready_, failed_,
                    interval_, cfg, i, cret, b_int, rx, nrx, ops, published,
                    compared, input >>

\* send_brightness_() stores the brightness; send_settings_() returns.
SettingsBrightnessSent ==
    /\ pc = "settings_brightness"
    /\ cpc = "idle"
    /\ brightness_' = b_int
    /\ pc' = "settings_done"
    /\ UNCHANGED << parse, version, upgrade, seq_, ready_, failed_, interval_,
                    cfg, i, cpc, frame, retries, cret, b_int, rx, nrx, ops,
                    sent, cmds, seq0, matched, heard, published,
                    compared, input >>

\* "Do an immediate poll to refresh current state."
SetupPoll ==
    /\ pc = "settings_done"
    /\ cpc = "idle"
    /\ Call(SHELLY_DIMMER_PROTO_CMD_POLL, << >>, "setup_poll")
    /\ cmds' = << Cmd(SHELLY_DIMMER_PROTO_CMD_POLL, << >>) >>
    /\ UNCHANGED << parse, version, upgrade, brightness_, ready_, failed_,
                    interval_, cfg, i, cret, b_int, rx, nrx, ops, published,
                    compared, input >>

SetupReady ==
    /\ pc = "setup_poll"
    /\ cpc = "idle"
    /\ ready_' = TRUE
    /\ pc' = "loop"
    /\ UNCHANGED << parse, version, upgrade, seq_, brightness_, failed_,
                    interval_, cfg, i, cpc, frame, retries, cret, b_int, rx,
                    nrx, ops, sent, cmds, seq0, matched, heard, published,
                    compared, input >>

(***************************************************************************)
(* Runtime: the poll interval and write_state().                           *)
(***************************************************************************)
PollTimer ==
    /\ pc = "loop"
    /\ cpc = "idle"
    /\ interval_
    /\ ops < MaxOps
    /\ ops' = ops + 1
    /\ Call(SHELLY_DIMMER_PROTO_CMD_POLL, << >>, "poll_done")
    /\ cmds' = << Cmd(SHELLY_DIMMER_PROTO_CMD_POLL, << >>) >>
    /\ UNCHANGED << parse, version, upgrade, brightness_, ready_, failed_,
                    interval_, cfg, i, cret, b_int, rx, nrx, published,
                    compared, input >>

PollDone ==
    /\ pc = "poll_done"
    /\ cpc = "idle"
    /\ pc' = "loop"
    /\ UNCHANGED << parse, version, upgrade, seq_, brightness_, ready_, failed_,
                    interval_, cfg, i, cpc, frame, retries, cret, b_int, rx,
                    nrx, ops, sent, cmds, seq0, matched, heard, published,
                    compared, input >>

\* Mutant of WriteState: an unchanged brightness is sent too.
WriteState_SendsUnchanged ==
    /\ pc = "loop"
    /\ cpc = "idle"
    /\ ops < MaxOps
    /\ ops' = ops + 1
    /\ IF ~ready_
       THEN /\ cmds' = << >>
            /\ UNCHANGED << seq_, frame, retries, cpc, pc, sent, seq0,
                            matched, heard, b_int >>
       ELSE \E level \in Levels :
              /\ b_int' = convert_brightness_(level)
              /\ IF FALSE
                 THEN /\ cmds' = << >>
                      /\ UNCHANGED << seq_, frame, retries, cpc, pc, sent,
                                      seq0, matched, heard >>
                 ELSE /\ Call(SHELLY_DIMMER_PROTO_CMD_SWITCH,
                              switch_payload(b_int'), "write_brightness")
                      /\ cmds' = << Cmd(SHELLY_DIMMER_PROTO_CMD_SWITCH,
                                        switch_payload(b_int')) >>
    /\ UNCHANGED << parse, version, upgrade, brightness_, ready_, failed_,
                    interval_, cfg, i, cret, rx, nrx, published, compared,
                    input >>

\* write_state(state) with state's brightness = level.
WriteState ==
    /\ pc = "loop"
    /\ cpc = "idle"
    /\ ops < MaxOps
    /\ ops' = ops + 1
    /\ IF ~ready_
       THEN /\ cmds' = << >>
            /\ UNCHANGED << seq_, frame, retries, cpc, pc, sent, seq0,
                            matched, heard, b_int >>
       ELSE \E level \in Levels :
              /\ b_int' = convert_brightness_(level)
              /\ IF b_int' = brightness_
                 THEN /\ cmds' = << >>
                      /\ UNCHANGED << seq_, frame, retries, cpc, pc, sent,
                                      seq0, matched, heard >>
                 ELSE /\ Call(SHELLY_DIMMER_PROTO_CMD_SWITCH,
                              switch_payload(b_int'), "write_brightness")
                      /\ cmds' = << Cmd(SHELLY_DIMMER_PROTO_CMD_SWITCH,
                                        switch_payload(b_int')) >>
    /\ UNCHANGED << parse, version, upgrade, brightness_, ready_, failed_,
                    interval_, cfg, i, cret, rx, nrx, published, compared,
                    input >>

\* send_brightness_() stores the brightness; write_state() returns.
WriteBrightnessSent ==
    /\ pc = "write_brightness"
    /\ cpc = "idle"
    /\ brightness_' = b_int
    /\ pc' = "loop"
    /\ UNCHANGED << parse, version, upgrade, seq_, ready_, failed_, interval_,
                    cfg, i, cpc, frame, retries, cret, b_int, rx, nrx, ops,
                    sent, cmds, seq0, matched, heard, published,
                    compared, input >>

Next ==
    \/ SetupCheckVersion
    \/ SetupStillMismatch
    \/ SetupStartUpgrade
    \/ UpgradeInit
    \/ UpgradeErase
    \/ UpgradeWrite
    \/ UpgradeDone
    \/ SetupSendSettings
    \/ SettingsSent
    \/ SettingsBrightnessSent
    \/ SetupPoll
    \/ SetupReady
    \/ PollTimer
    \/ PollDone
    \/ WriteState
    \/ WriteBrightnessSent
    \/ Transmit
    \/ GiveUp
    \/ PollByte
    \/ Timeout
    \/ Deliver

Spec == Init /\ [][Next]_vars

(***************************************************************************)
(* SpecUpgrade: setup() with a peer that never answers, for every image    *)
(* length up to MaxImage. setup() runs to its end: the calls it makes      *)
(* (the flasher, the waits of send_command_) all return.                   *)
(***************************************************************************)
MaxImage == 1030    \* the image lengths drawn are 0 .. MaxImage

UpgradeSpecInit ==
    /\ input = [kind |-> "device"]
    /\ Constructed
    /\ seq_ = 0
    /\ pc = "setup"
    /\ \E fw \in 0 .. MaxImage :
          cfg = Config(0, 1000, FALSE, 0, 100, 20, TRUE, TRUE, fw)

UpgradeNext ==
    \/ SetupCheckVersion
    \/ SetupStillMismatch
    \/ SetupStartUpgrade
    \/ UpgradeInit
    \/ UpgradeErase
    \/ UpgradeWrite
    \/ UpgradeDone
    \/ Transmit
    \/ GiveUp
    \/ Timeout

SpecUpgrade == UpgradeSpecInit /\ [][UpgradeNext]_vars /\ WF_vars(UpgradeNext)

(***************************************************************************)
(* Claims about the transceiver and its callers, checked under Spec.       *)
(***************************************************************************)
\* The callers' continuations: with cpc = "idle" at one of them, the last
\* send_command_ has just returned cret.
ReturnPoints ==
    { "setup_compare", "settings_sent", "settings_brightness", "setup_poll",
      "poll_done", "write_brightness" }

Returned == cpc = "idle" /\ pc \in ReturnPoints
InCall == cpc \in {"tx", "wait"}

\* C1 as stated: send_command_ returns true only if a complete frame with
\* the sequence number just sent was received during the call (a complete
\* frame with another sequence byte does not end the call), and false only
\* after 3 transmissions without such a frame.
C1_SuccessOnlyIfCorrelated ==
    Returned =>
        /\ cret => matched
        /\ ~cret => (Len(sent) = SHELLY_DIMMER_MAX_RETRIES /\ ~matched)

\* C2: a call during which the transport delivers no byte returns false
\* after exactly 3 transmissions; while the call runs, the transmissions
\* made and the attempts left add up to 3.
C2_SilentTransport ==
    /\ (InCall /\ ~heard) =>
          (retries >= 0 /\ Len(sent) + retries = SHELLY_DIMMER_MAX_RETRIES)
    /\ (Returned /\ ~heard) =>
          (~cret /\ Len(sent) = SHELLY_DIMMER_MAX_RETRIES /\ retries = -1)

C2_Witness ==
    /\ Returned
    /\ ~heard
    /\ Len(sent) = 3
    /\ ~cret
    /\ pc = "poll_done"

\* C3: in and after a call the sequence counter is the value at entry plus
\* one modulo 256, set before the first transmission; at most 3 frames are
\* transmitted, at least one once the call has returned, and every one is
\* the same frame, carrying that sequence number.
C3_OneSequencePerCall ==
    (InCall \/ Returned) =>
        /\ seq_ = (seq0 + 1) % 256
        /\ Len(sent) <= 3
        /\ Returned => Len(sent) >= 1
        /\ \A k \in 1 .. Len(sent) :
              /\ sent[k] = sent[1]
              /\ sent[k][2] = (seq0 + 1) % 256
              /\ sent[k] = frame

C3_Witness ==
    /\ Returned
    /\ seq0 = 255
    /\ seq_ = 0
    /\ Len(sent) = 3

\* C10: when send_settings_ has returned, it has issued exactly two
\* commands, settings (0x20) then switch (0x01), with consecutive sequence
\* numbers and the same brightness in payload bytes 0..1, whatever the
\* outcome of the settings command.
C10_SettingsThenSwitch ==
    pc = "settings_done" =>
        /\ Len(cmds) = 2
        /\ cmds[1].cmd = 32
        /\ cmds[2].cmd = 1
        /\ cmds[2].seq = (cmds[1].seq + 1) % 256
        /\ Len(cmds[1].payload) = 10
        /\ Len(cmds[2].payload) = 2
        /\ cmds[1].payload[1] = cmds[2].payload[1]
        /\ cmds[1].payload[2] = cmds[2].payload[2]
        /\ cmds[2].payload[1] + 256 * cmds[2].payload[2] = b_int

\* The settings command got no reply at all (the one delivery of the run was
\* the version report), and a non-zero brightness was sent twice.
C10_Witness ==
    /\ pc = "settings_done"
    /\ nrx = 1
    /\ Len(cmds) = 2
    /\ b_int = 500
    /\ cmds[2].payload = << 244, 1 >>

(***************************************************************************)
(* Claims about the codec and the parser, checked under SpecParser.        *)
(***************************************************************************)
Fed == Len(trace)                       \* bytes consumed so far
Feeding(kind) == pc = "p_feed" /\ input.kind = kind
SentSeq == U8(input.seq + 1)            \* the sequence byte of the frame

\* C4: round trip. The bytes produced by frame_command_ for a payload of 0
\* to 72 bytes, fed one by one from cursor 0, are classified 1 (continue)
\* for every byte but the last and 0 (complete) for the last, and the parse
\* buffer then holds the sequence, command, length and payload encoded.
C4_RoundTrip ==
    Feeding("encode") =>
        /\ \A j \in 1 .. Fed : trace[j] = IF j = Len(frame) THEN 0 ELSE 1
        /\ Fed = Len(frame) =>
              /\ buffer_[1] = SentSeq
              /\ buffer_[2] = input.cmd
              /\ buffer_[3] = Len(input.payload)
              /\ \A j \in 1 .. Len(input.payload) :
                     buffer_[3 + j] = input.payload[j]

C4_Witness ==
    /\ Feeding("encode")
    /\ Len(input.payload) = MAX_PAYLOAD
    /\ Fed = Len(frame)
    /\ result = 0
    /\ buffer_[3] = MAX_PAYLOAD

\* C5: the encoder output for (s, c, p) with N = Len(p) is 0x01, s, c, N, p,
\* the high and the low byte of (s + c + N + sum of p) mod 65536, 0x04, N + 7
\* bytes in all; switch, payload E8 03, sequence 5 gives
\* 01 05 01 02 E8 03 00 F3 04.
C5_EncoderExact ==
    (pc = "p_feed" /\ input.kind = "encode") =>
        LET p   == input.payload
            N   == Len(p)
            sum == (SentSeq + input.cmd + N + SumSeq(p)) % 65536
        IN  /\ Len(frame) = N + 7
            /\ frame[1] = 1
            /\ frame[2] = SentSeq
            /\ frame[3] = input.cmd
            /\ frame[4] = N
            /\ \A j \in 1 .. N : frame[4 + j] = p[j]
            /\ frame[N + 5] = sum \div 256
            /\ frame[N + 6] = sum % 256
            /\ frame[N + 7] = 4
            /\ (SentSeq = 5 /\ input.cmd = 1 /\ p = << 232, 3 >>) =>
                   frame = << 1, 5, 1, 2, 232, 3, 0, 243, 4 >>

C5_Witness ==
    /\ pc = "p_feed"
    /\ input.kind = "encode"
    /\ input.payload = << 232, 3 >>
    /\ input.cmd = SHELLY_DIMMER_PROTO_CMD_SWITCH
    /\ seq_ = 5
    /\ frame = << 1, 5, 1, 2, 232, 3, 0, 243, 4 >>

\* C6 as stated: a frame with one bit flipped in any of bytes 1 .. 4+N-1 is
\* never classified complete, and an error is reported for it.
C6_AnyFlipRejected ==
    Feeding("flip") =>
        /\ \A j \in 1 .. Fed : trace[j] # 0
        /\ rx = << >> => \E j \in 1 .. Fed : trace[j] = -1

\* C6 amended: with the flipped bit in the sequence byte, the command byte or
\* a payload byte (not in the length byte), every byte up to the checksum
\* high byte is classified 1, the checksum low byte is classified -1, and no
\* byte of the frame is classified 0.
C6_FlipOutsideLengthRejected ==
    (Feeding("flip") /\ input.at # 3) =>
        LET N == Len(input.payload) IN
        /\ \A j \in 1 .. Fed : trace[j] # 0
        /\ \A j \in 1 .. Fed : j < N + 6 => trace[j] = 1
        /\ Fed >= N + 6 => trace[N + 6] = -1

C6_Witness ==
    /\ Feeding("flip")
    /\ input.at = 3 + Len(input.payload)
    /\ input.at > 3
    /\ rx = << >>
    /\ trace[Len(input.payload) + 6] = -1

\* C7 as stated: after an error, any garbage followed by a well-formed frame
\* ends with the last byte of the frame classified complete.
C7_AnyGarbageThenFrame ==
    (Feeding("resync") /\ rx = << >>) => result = 0

HasStart(g) == \E j \in 1 .. Len(g) : g[j] = SHELLY_DIMMER_PROTO_START_BYTE

\* C7 amended: after an error, garbage bytes none of which is the start
\* marker 0x01, followed by a well-formed frame: every garbage byte is
\* classified -1 and the last byte of the frame is classified 0, the buffer
\* holding the frame.
C7_GarbageWithoutStartThenFrame ==
    (Feeding("resync") /\ ~HasStart(input.garbage)) =>
        LET e == Len(input.err)
            g == Len(input.garbage)
        IN  /\ Fed >= e => trace[e] = -1
            /\ \A j \in 1 .. Fed : (e < j /\ j <= e + g) => trace[j] = -1
            /\ \A j \in 1 .. Fed :
                   e + g < j => trace[j] = IF j = e + g + Len(frame) THEN 0 ELSE 1
            /\ rx = << >> => \A j \in 1 .. Len(frame) - 3 :
                                 buffer_[j - 1] = frame[j]

C7_Witness ==
    /\ Feeding("resync")
    /\ ~HasStart(input.garbage)
    /\ Len(input.garbage) = MaxGarbage
    /\ Len(input.err) > 1
    /\ rx = << >>
    /\ result = 0

\* C8: when the declared payload length N makes 4 + N + 3 exceed the buffer
\* capacity, the frame under construction ends in a byte classified -1, no
\* byte of it is classified 0, and fewer than N payload bytes were consumed.
Oversized(N) == 4 + N + 3 > SHELLY_DIMMER_BUFFER_SIZE

C8_OversizeRejected ==
    (Feeding("oversize") /\ Oversized(input.len) /\ Fed > 4) =>
        \E e \in 5 .. Fed :
            /\ trace[e] = -1
            /\ \A j \in 1 .. e - 1 : trace[j] = 1
            /\ e - 4 < input.len

C8_Witness ==
    /\ Feeding("oversize")
    /\ input.len = 250
    /\ Fed = 5
    /\ result = -1
    /\ buffer_[3] = 250

\* C9: the cursor stays below the buffer capacity, so every write
\* buffer_[buffer_pos_] = c is in bounds, and it is 0 right after a byte
\* classified complete (0) or error (-1).
C9_CursorInBounds ==
    /\ buffer_pos_ \in 0 .. SHELLY_DIMMER_BUFFER_SIZE - 1
    /\ (Fed > 0 /\ result \in {0, -1}) => buffer_pos_ = 0

\* The longest frame the buffer admits (N = 249) took the cursor to 254,
\* where the checksum did not match and the cursor went back to 0.
C9_Witness ==
    /\ Feeding("oversize")
    /\ input.len = 249
    /\ Fed = SHELLY_DIMMER_BUFFER_SIZE - 1
    /\ result = -1
    /\ buffer_pos_ = 0

\* The cursor at which byte j of the stream was stored: the number of bytes
\* classified 1 right before it.
RECURSIVE CursorAt(_)
CursorAt(j) == IF j <= 1 \/ trace[j - 1] # 1 THEN 0 ELSE 1 + CursorAt(j - 1)

\* C16: when a byte is classified complete (0), the buffer holds, from index
\* 0 to the cursor at that byte, a well-formed frame: buffer_[0] is 0x01,
\* with N = buffer_[3] the size 4 + N + 3 is within the capacity, the cursor
\* is 4 + N + 2, buffer_[4+N] and buffer_[4+N+1] are the high and the low
\* byte of the sum of buffer_[1 .. 3+N] modulo 65536, and buffer_[4+N+2] is
\* 0x04.
C16_CompleteIsWellFormed ==
    (pc = "p_feed" /\ Fed > 0 /\ result = 0) =>
        LET N == buffer_[3] IN
        /\ buffer_[0] = 1
        /\ 4 + N + 3 <= SHELLY_DIMMER_BUFFER_SIZE
        /\ CursorAt(Fed) = 4 + N + 2
        /\ buffer_[4 + N] * 256 + buffer_[4 + N + 1]
               = SumSeq(BufSlice(buffer_, 1, 3 + N)) % 65536
        /\ buffer_[4 + N + 2] = 4

\* A frame whose length byte had a bit flipped (4 -> 0) was classified
\* complete at cursor 6, on a prefix that is itself a well-formed frame.
C16_Witness ==
    /\ Feeding("flip")
    /\ input.at = 3
    /\ result = 0
    /\ buffer_[3] = 0
    /\ Fed = 7
    /\ CursorAt(Fed) = 6

(***************************************************************************)
(* Claims about setup() and upgrade_firmware_(), checked under Spec.       *)
(***************************************************************************)
\* Flasher operations of one kind recorded so far.
Flashed(op) == { k \in 1 .. Len(flashed) : flashed[k].op = op }

\* Version requests among the commands issued by setup()'s loop.
VersionChecks ==
    { k \in 1 .. Len(cmds) : cmds[k].cmd = SHELLY_DIMMER_PROTO_CMD_VERSION }

\* This step enters send_command_ with a version request.
IssuesVersion ==
    /\ cpc = "idle"
    /\ cpc' = "tx"
    /\ frame'[3] = SHELLY_DIMMER_PROTO_CMD_VERSION

\* What C11 says of one step of setup().
C11_Step ==
    /\ (Len(flashed') > Len(flashed) /\ flashed'[Len(flashed')].op = "init")
          => (compared = "mismatch" /\ i = 0 /\ Cardinality(VersionChecks) = 1)
    /\ IssuesVersion
          => (pc = "setup" /\ Cardinality(VersionChecks) <= 1
                /\ Cardinality(VersionChecks) = i)
    /\ (pc = "setup_compare" /\ cpc = "idle" /\ i > 0 /\ version_mismatch)
          => (failed_' /\ pc' = "loop" /\ flashed' = flashed /\ seq_' = seq_
                /\ ~ready_' /\ ~interval_')
    /\ failed_
          => (failed_' /\ flashed' = flashed /\ seq_' = seq_ /\ sent' = sent)

\* C11: during setup() the flasher is started at most once, and only right
\* after a version comparison that mismatched, on the first pass of the loop;
\* the version is requested at most twice; a mismatch found after a completed
\* upgrade marks the device failed and setup() returns; once the device is
\* marked failed, no flasher operation and no command follows.
C11_CheckFlashCheckOnce ==
    /\ [](Cardinality(Flashed("init")) <= 1 /\ i <= 1)
    /\ [][C11_Step]_vars

\* The version was requested twice with one upgrade in between, the second
\* comparison mismatched too, and setup() has returned with the device failed.
C11_Witness ==
    /\ failed_
    /\ pc = "loop"
    /\ i = 1
    /\ compared = "mismatch"
    /\ Cardinality(Flashed("init")) = 1
    /\ Cardinality(VersionChecks) = 2
    /\ flashed[Len(flashed)].op = "write"
    /\ flashed[Len(flashed)].ok

\* C12: once a flasher operation (init, erase or a chunk write) has failed,
\* it is the last flasher operation, setup() has returned with the device
\* marked failed, the readiness flag is false, the poll interval is not
\* registered, and the version request of the first pass is the only command
\* that was ever issued.
C12_FailedUpgradeStops ==
    \A k \in 1 .. Len(flashed) :
        ~flashed[k].ok =>
            /\ k = Len(flashed)
            /\ pc = "loop"
            /\ failed_
            /\ ~ready_
            /\ ~interval_
            /\ i = 0
            /\ seq_ = 1
            /\ cpc = "idle"

\* The second chunk write failed; a brightness change arrived afterwards.
C12_Witness ==
    /\ Len(flashed) = 4
    /\ flashed[3].op = "write" /\ flashed[3].ok
    /\ flashed[4].op = "write" /\ ~flashed[4].ok
    /\ flashed[4].addr = 256
    /\ failed_
    /\ ops = 1

\* What C17 says of one step.
C17_Step ==
    /\ ready_' # ready_
          => /\ ~ready_ /\ ready_'
             /\ pc = "setup_poll" /\ cpc = "idle" /\ pc' = "loop"
             /\ compared = "match"
             /\ ~failed_
    /\ compared' # compared => (pc = "setup_compare" /\ cpc = "idle")
    /\ (pc = "setup_compare" /\ pc' # pc)
          => (compared' = "match"
                <=> (/\ version_major_ = SHD_FIRMWARE_MAJOR_VERSION
                     /\ version_minor_ = SHD_FIRMWARE_MINOR_VERSION))
    /\ ready_ => (ready_' /\ ~failed_')

\* C17: ready_ becomes true only in the last statement of setup(), when the
\* last comparison of setup()'s loop found version_major_ and version_minor_
\* equal to the expected version, and the device is not marked failed; ready_
\* and failed_ are never both set; once set, ready_ stays set.
C17_ReadyOnlyAfterSetup ==
    /\ [](~(ready_ /\ failed_))
    /\ [](ready_ => (compared = "match" /\ interval_))
    /\ [][C17_Step]_vars

\* setup() upgraded the firmware, found the expected version at the second
\* comparison and set ready_.
C17_Witness ==
    /\ ready_
    /\ pc = "loop"
    /\ i = 1
    /\ compared = "match"
    /\ Cardinality(Flashed("write")) >= 2
    /\ ~failed_

(***************************************************************************)
(* Claims about the copy loop of upgrade_firmware_, under SpecUpgrade.     *)
(***************************************************************************)
\* Bytes written by the successful writes among the first n flasher
\* operations.
RECURSIVE Written(_)
Written(n) ==
    IF n = 0 THEN 0
    ELSE Written(n - 1)
           + (IF flashed[n].op = "write" /\ flashed[n].ok
              THEN flashed[n].len ELSE 0)

\* upgrade_firmware_() has returned true.
Upgraded == i = 1 /\ pc \notin {"upgrade", "upgrade_erase", "upgrade_write"}

C19_Chunks ==
    /\ \A k \in 1 .. Len(flashed) :
          /\ flashed[k].op = "init" <=> k = 1
          /\ flashed[k].op = "erase" <=> k = 2
          /\ flashed[k].op = "write" <=> k >= 3
          /\ k < Len(flashed) => flashed[k].ok
          /\ flashed[k].op = "write" =>
                /\ flashed[k].addr = Written(k - 1)
                /\ flashed[k].len \in 1 .. 256
                /\ flashed[k].addr + flashed[k].len <= cfg.fw_len
                /\ flashed[k].len < 256 =>
                      flashed[k].addr + flashed[k].len = cfg.fw_len
    /\ Upgraded =>
          /\ Len(flashed) >= 2
          /\ flashed[Len(flashed)].ok
          /\ Written(Len(flashed)) = cfg.fw_len

\* C19: the flasher operations of an upgrade are one init, one erase, then
\* chunk writes only, each after the success of the one before; every chunk
\* is written at the base address plus the bytes written so far and has 1
\* to 256 bytes, fewer than 256 only when it ends the image; when
\* upgrade_firmware_() has returned true the chunks add up to the image
\* length; and upgrade_firmware_(), once entered, returns.
C19_UpgradeWritesImage ==
    /\ []C19_Chunks
    /\ (pc = "upgrade") ~> (pc \in {"setup", "loop"})

\* An image of 600 bytes was written as chunks of 256, 256 and 88 bytes.
C19_Witness ==
    /\ Upgraded
    /\ cfg.fw_len = 600
    /\ Len(flashed) = 5
    /\ flashed[3].len = 256 /\ flashed[3].addr = 0
    /\ flashed[4].len = 256 /\ flashed[4].addr = 256
    /\ flashed[5].len = 88 /\ flashed[5].addr = 512

(***************************************************************************)
(* Claims about the dispatcher, checked under Spec.                        *)
(***************************************************************************)
\* This step is one iteration of read_frame_'s loop inside send_command_.
ReadsByte == cpc = "wait" /\ rx # << >> /\ rx' = Tail(rx)

\* handle_frame_'s return value for the frame the buffer holds.
Dispatched == handle_frame_(buffer_, seq_, version_major_, version_minor_).ret

\* C14: when the byte read completes a frame whose sequence byte is the
\* sequence counter and handle_frame_ returns false for that frame,
\* send_command_ returns true at that byte: nothing more is transmitted and
\* the attempts left are not touched; a call in which a frame with the
\* current sequence number completed has returned true.
C14_DispatchFailureEndsCall ==
    /\ []((Returned /\ matched) => (cret /\ result = 0))
    /\ [][(ReadsByte /\ result' = 0 /\ buffer_'[1] = seq_ /\ ~Dispatched')
             => (cret' /\ cpc' = "idle" /\ sent' = sent /\ retries' = retries
                   /\ seq_' = seq_)]_vars

\* A brightness write was answered, at the first attempt, by a switch
\* acknowledgment without a status byte.
C14_Witness ==
    /\ Returned
    /\ pc = "write_brightness"
    /\ cret
    /\ matched
    /\ result = 0
    /\ buffer_[1] = seq_
    /\ buffer_[2] = SHELLY_DIMMER_PROTO_CMD_SWITCH
    /\ buffer_[3] = 0
    /\ ~Dispatched
    /\ Len(sent) = 1

\* What C15 says of one step.
C15_Step ==
    /\ (ReadsByte /\ result' = 0 /\ buffer_'[1] # seq_)
          => (version' = version /\ published' = published)
    /\ version' # version
          => /\ ReadsByte
             /\ result' = 0
             /\ buffer_'[1] = seq_
             /\ buffer_'[2] = SHELLY_DIMMER_PROTO_CMD_VERSION
             /\ buffer_'[3] >= 2
             /\ version_minor_' = buffer_'[4]
             /\ version_major_' = buffer_'[5]

\* C15: a completed frame whose sequence byte differs from seq_ leaves the
\* stored version as it was and publishes nothing; the stored version
\* changes only when a version report (0x11) with the sequence byte equal to
\* seq_ and a payload of at least 2 bytes completes, and then to the minor
\* and major version the report carries.
C15_MismatchChangesNothing == [][C15_Step]_vars

\* setup()'s first version request was answered only by a version report
\* with the previous sequence number: the call returned, the stored version
\* is still 0.0.
C15_Witness ==
    /\ Returned
    /\ pc = "setup_compare"
    /\ cret
    /\ ~matched
    /\ result = 0
    /\ buffer_[1] # seq_
    /\ buffer_[2] = SHELLY_DIMMER_PROTO_CMD_VERSION
    /\ buffer_[5] = SHD_FIRMWARE_MAJOR_VERSION
    /\ version_major_ = 0
    /\ version_minor_ = 0

(***************************************************************************)
(* Claims about the runtime operations, checked under Spec.                *)
(***************************************************************************)
\* This step is an invocation of write_state().
WriteStateStep == pc = "loop" /\ ops' = ops + 1 /\ pc' # "poll_done"

\* This step is a firing of the poll interval.
PollTimerStep == pc = "loop" /\ pc' = "poll_done"

\* The last operation was a brightness write for brightness b whose switch
\* command exhausted its attempts.
LastWriteFailed(b) ==
    /\ ~cret
    /\ Len(sent) = SHELLY_DIMMER_MAX_RETRIES
    /\ cmds = << [cmd |-> SHELLY_DIMMER_PROTO_CMD_SWITCH, seq |-> seq_,
                  payload |-> switch_payload(b)] >>

\* Exhaustion of a runtime command leaves the device ready and not failed.
C18_NonFatal ==
    (pc \in {"poll_done", "write_brightness"} /\ cpc = "tx"
       /\ cpc' = "idle")
        => (~cret' /\ ready_' /\ ~failed_' /\ interval_')

\* Every firing of the poll interval transmits a poll command.
C18_PollAgain ==
    PollTimerStep
        => (cpc' = "tx" /\ frame'[3] = SHELLY_DIMMER_PROTO_CMD_POLL
              /\ seq_' = U8(seq_ + 1))

\* A write_state() for the brightness whose last write was not acknowledged
\* transmits a switch command for it.
C18_WriteAgain ==
    (WriteStateStep /\ ready_ /\ LastWriteFailed(b_int'))
        => (cpc' = "tx" /\ frame'[3] = SHELLY_DIMMER_PROTO_CMD_SWITCH
              /\ seq_' = U8(seq_ + 1))

\* C18 as stated: exhausting the attempts of a poll or of a brightness write
\* leaves the device ready and not failed; the next firing of the poll
\* interval transmits a poll command, and the next write_state() for the
\* brightness that was not acknowledged transmits a switch command again.
C18_RuntimeExhaustionRetried ==
    [][C18_NonFatal /\ C18_PollAgain /\ C18_WriteAgain]_vars

\* The parts of C18 that do not concern the repeated brightness write.
C18_NonFatalAndPollAgain == [][C18_NonFatal /\ C18_PollAgain]_vars

\* What C20 says of one step of write_state().
C20_Step ==
    /\ WriteStateStep =>
          IF ~ready_ \/ b_int' = brightness_
          THEN /\ seq_' = seq_
               /\ sent' = sent
               /\ frame' = frame
               /\ brightness_' = brightness_
               /\ cpc' = "idle"
               /\ pc' = "loop"
          ELSE /\ b_int' \in { convert_brightness_(l) : l \in Levels }
               /\ seq_' = U8(seq_ + 1)
               /\ frame' = frame_command_(seq_', SHELLY_DIMMER_PROTO_CMD_SWITCH,
                                          << b_int' % 256, b_int' \div 256 >>)
               /\ cpc' = "tx"
               /\ pc' = "write_brightness"
               /\ brightness_' = brightness_
    /\ pc = "write_brightness" =>
          /\ seq_' = seq_
          /\ frame' = frame
          /\ b_int' = b_int
          /\ \A k \in 1 .. Len(sent') : sent'[k] = frame
          /\ brightness_' = IF pc' = "loop" THEN b_int ELSE brightness_

\* C20: write_state() transmits nothing and leaves seq_ and brightness_ as
\* they were when ready_ is false or the converted brightness equals
\* brightness_; otherwise it enters send_command_ once, with a switch
\* command whose payload is the converted brightness (low byte first), every
\* frame transmitted until it returns is that command's frame, and on return
\* brightness_ is the converted brightness.
C20_WriteState == [][C20_Step]_vars

\* A write for level 1 changed the brightness from 500 to 1000 with one
\* command (the sequence counter went from 255 to 0).
C20_Witness ==
    /\ pc = "loop"
    /\ ops = 1
    /\ brightness_ = 1000
    /\ b_int = 1000
    /\ seq_ = 0
    /\ Len(sent) >= 1
    /\ sent[1] = << 1, 0, 1, 2, 232, 3, 0, 238, 4 >>

(***************************************************************************)
(* Claims about convert_brightness_, checked under SpecConvert.            *)
(***************************************************************************)
\* C13: convert_brightness_ gives 0 for level 0 under every configuration,
\* 1000 for level 1 with min_brightness_ = 0 and max_brightness_ = 1000, and
\* at most 1000 for every level in 0 .. 1 when min_brightness_ <=
\* max_brightness_.
C13_ConvertBrightness ==
    pc = "c_done" =>
        /\ input.level[1] = 0 => b_int = 0
        /\ (input.level[1] = input.level[2] /\ cfg.min_brightness_ = 0
               /\ cfg.max_brightness_ = 1000) => b_int = 1000
        /\ cfg.min_brightness_ <= cfg.max_brightness_
               => b_int <= SHELLY_DIMMER_MAX_BRIGHTNESS

\* Level 1 with the range 0 .. 1000 gave 1000.
C13_Witness ==
    /\ pc = "c_done"
    /\ input.level[1] = input.level[2]
    /\ cfg.min_brightness_ = 0
    /\ cfg.max_brightness_ = 1000
    /\ b_int = 1000

====
